---- MODULE Spec2Model ----
(***************************************************************************)
(* Mission orchestration of the WormGPT hive: QueenOrchestrator            *)
(* (wormgpt_hive/queen/orchestrator.py), MessageBus, QueenRegistry,        *)
(* DroneRegistry / MissionStep (wormgpt_hive/drones/base_drone.py) and     *)
(* StateManager (wormgpt_hive/shared/state_manager.py).                    *)
(*                                                                         *)
(* Python objects that are shared by reference (MissionStep instances,     *)
(* mission dicts, mailbox lists) live in heaps: a sequence of records,     *)
(* addressed by index.  Lists of steps are sequences of heap indices.      *)
(***************************************************************************)
EXTENDS Integers, Sequences, FiniteSets, TLC

\* ------------------------------------------------------------------------
\* Bounds of the model
\* ------------------------------------------------------------------------
MaxCalls == 1         \* top-level execute_mission calls in one behaviour
MaxMissions == 2      \* mission dicts with a usable plan in one behaviour
MaxPlanLen == 2       \* steps in a plan array returned by the Planner
MaxRevisedLen == 2    \* steps in a revised_plan returned by the Reflector
MaxSends == 2         \* bus-level send_message calls in a bus behaviour
MaxReceives == 2      \* bus-level receive_messages calls in a bus behaviour
MaxMailLen == 2       \* steps in the plan of a mailbox run
MaxInstances == 2     \* distinct objects registered under one name
MaxRecords == 3       \* records in the state file of a store behaviour

\* ------------------------------------------------------------------------
\* Values
\* ------------------------------------------------------------------------
NoKey == "<missing>"              \* dict.get(key) of a key that is not there
None == "<None>"                  \* Python None where a string may stand
Absent == [absent |-> TRUE]       \* a dict-valued key that is not there

QueenIds == {"default_queen", "security_queen"}
DroneNames == {"ReconDrone"}
ToolNames == {"shell_executor"}
MailboxGoal == "check mailbox and execute tasks"
Goals == {"say hello", MailboxGoal}

\* A string that is an action reference is a sequence of tokens, "." being
\* the delimiter; a JSON value that is no string has type "int".
Str(toks) == [type |-> "str", toks |-> toks]
NonStr == [type |-> "int", toks |-> <<>>]

\* str.split("."): the parts between the delimiters, empty parts included.
RECURSIVE SplitDot(_)
SplitDot(s) ==
  IF s = <<>> THEN << <<>> >>
  ELSE LET rest == SplitDot(Tail(s)) IN
       IF Head(s) = "." THEN << <<>> >> \o rest
       ELSE << (<<Head(s)>> \o Head(rest)) >> \o Tail(rest)

\* A token sequence that spells a registered name (one token, no delimiter).
Names(part, names) == Len(part) = 1 /\ part[1] \in names

\* Message payloads (the dict under a message's "message" key, or the dict a
\* reply echoes as original_message).
Payload(task, target) == [task |-> task, target |-> target]
EmptyPayload == Payload(NoKey, NoKey)
PayloadTruthy(p) == p # EmptyPayload

NoDetails == [kind |-> NoKey, arg |-> NoKey]
Details(kind, arg) == [kind |-> kind, arg |-> arg]

\* A message dict.  Keys that are not there hold NoKey / Absent.
Message(task, target, inner, sender, status, details, original, result) ==
  [task |-> task, target |-> target, message |-> inner,
   sender_queen_id |-> sender, status |-> status, details |-> details,
   original_message |-> original, result |-> result]
EmptyMessage ==
  Message(NoKey, NoKey, Absent, NoKey, NoKey, NoDetails, Absent, NoKey)
MessageTruthy(m) == m # Absent /\ m # EmptyMessage
TaskMessage(task) ==
  Message(task, NoKey, Absent, NoKey, NoKey, NoDetails, Absent, NoKey)
WrappedTask(task) ==
  Message(NoKey, NoKey, Payload(task, NoKey), NoKey, NoKey, NoDetails, Absent,
          NoKey)

\* Step parameters: a dict with the keys the orchestrator reads.
Parameters(goal, recipient, message) ==
  [goal |-> goal, recipient_queen_id |-> recipient, message |-> message]
NoParameters == Parameters(NoKey, NoKey, Absent)

\* A step spec as the oracles return it and as _generate_plan synthesizes it.
\* complete = FALSE: a JSON object that lacks one of the four keys.
StepSpec(id, action, parameters, reasoning) ==
  [step_id |-> id, action |-> action, parameters |-> parameters,
   reasoning |-> reasoning, complete |-> TRUE]
Incomplete(spec) == [spec EXCEPT !.complete = FALSE]

\* What a target's execute hands back: a dict, a value that is no dict, or
\* an exception.
Dict(success, message, data, error, details, messages) ==
  [kind |-> "dict", success |-> success, message |-> message, data |-> data,
   error |-> error, details |-> details, messages |-> messages]
NonDict == [kind |-> "nondict"]
Raise(text) == [kind |-> "raise", text |-> text]

\* An observation string: its fixed text and the value formatted into it
\* (a token sequence for an action or a target name, a string otherwise).
Observation(kind, arg) == [kind |-> kind, arg |-> arg, about |-> <<>>]
ObservationAbout(kind, toks) == [kind |-> kind, arg |-> NoKey, about |-> toks]
NoObservation == Observation(None, None)

VARIABLES
  steps,          \* heap of MissionStep objects
  missions,       \* heap of mission dicts (current_mission values)
  current_mission,\* queen id -> index into missions, 0 for None
  mission_steps,  \* queen id -> self.mission_steps (list of step indices)
  step_index,     \* queen id -> self.step_index
  stack,          \* active execute_mission calls, innermost last
  mailboxes,      \* MessageBus.mailboxes on the orchestrators' thread
  store,          \* queen id -> the missions array of its state file
  calls,          \* what each top-level execute_mission call gave its caller
  addLog,         \* every add_mission invocation, in order: the dict handed
                  \* over (mission), the call that made it (by), the dict's
                  \* status and the call's plan list at that moment
  dispatchLog,    \* per mission dict: the steps handed to _execute_step
  heap,           \* bus model: list objects, by index
  boxes,          \* bus model: MessageBus.mailboxes, id -> list index or 0
  threads,        \* bus model: the concurrent callers of the bus
  sent,           \* bus model: messages handed to send_message so far
  store1,         \* store model: the missions array of one state file
  queens,         \* QueenRegistry.queens: id -> registered instance
  drones,         \* DroneRegistry.drones: name -> registered instance
  tools,          \* DroneRegistry.tools: name -> registered instance
  last            \* registry model: the last registry call or dispatch


vars == <<steps, missions, current_mission, mission_steps, step_index, stack,
          mailboxes, store, calls, addLog, dispatchLog, heap, boxes, threads,
          sent, store1, queens, drones, tools, last>>
missionVars == <<steps, missions, current_mission, mission_steps, step_index,
                 stack, mailboxes, store, calls, addLog, dispatchLog>>
busVars == <<heap, boxes, threads, sent>>
registryVars == <<queens, drones, tools, last>>

\* ------------------------------------------------------------------------
\* MissionStep (base_drone.py)
\* ------------------------------------------------------------------------
ResultNone == [tag |-> "None", value |-> None]
ResultData(d) == IF d = NoKey THEN ResultNone ELSE [tag |-> "data", value |-> d]
ResultError(e) == [tag |-> "error", value |-> IF e = NoKey THEN None ELSE e]

MissionStep(spec) ==
  [step_id |-> spec.step_id, action |-> spec.action,
   parameters |-> spec.parameters, reasoning |-> spec.reasoning,
   status |-> "pending", observation |-> NoObservation, result |-> ResultNone]

mark_completed(step, observation, result) ==
  [step EXCEPT !.status = "completed", !.observation = observation,
               !.result = ResultData(result)]

mark_failed(step, observation, error) ==
  [step EXCEPT !.status = "failed", !.observation = observation,
               !.result = ResultError(error)]

\* to_dict: a fresh dict holding the step's fields as they are now.  The
\* parameters dict is shared with the step, so it is read through src.
to_dict(stp, r) ==
  [src |-> r, step_id |-> stp[r].step_id, action |-> stp[r].action,
   reasoning |-> stp[r].reasoning, status |-> stp[r].status,
   observation |-> stp[r].observation, result |-> stp[r].result]

\* json.dumps of such a dict: every field by value.
Serialize(stp, d) ==
  [step_id |-> d.step_id, action |-> d.action,
   parameters |-> stp[d.src].parameters, reasoning |-> d.reasoning,
   status |-> d.status, observation |-> d.observation, result |-> d.result]

SeqMap(Op(_), s) == [i \in 1..Len(s) |-> Op(s[i])]

\* ------------------------------------------------------------------------
\* _execute_step: resolving the action, interpreting the outcome
\* ------------------------------------------------------------------------
\* Lines 328-349 with the capability registry asked before the agent
\* registry.
ResolveDronesFirst(action, queen_ids, drone_names) ==
  IF action.type # "str" THEN [kind |-> "raise", text |-> "AttributeError"]
  ELSE LET action_parts == SplitDot(action.toks) IN
    IF Len(action_parts) # 2 THEN [kind |-> "invalid"]
    ELSE LET target_name == action_parts[1]
             action_name == action_parts[2] IN
      IF Names(target_name, drone_names)
        THEN [kind |-> "drone", target |-> target_name[1], method |-> action_name]
      ELSE IF Names(target_name, queen_ids)
        THEN [kind |-> "queen", target |-> target_name[1], method |-> action_name]
      ELSE [kind |-> "notfound", target |-> target_name]

\* Lines 328-349 up to the call of execute: what the action refers to when
\* the registries know the ids queen_ids and the names drone_names.
ResolveIn(action, queen_ids, drone_names) ==
  IF action.type # "str" THEN [kind |-> "raise", text |-> "AttributeError"]
  ELSE LET action_parts == SplitDot(action.toks) IN
    IF Len(action_parts) # 2 THEN [kind |-> "invalid"]
    ELSE LET target_name == action_parts[1]
             action_name == action_parts[2] IN
      IF Names(target_name, queen_ids)
        THEN [kind |-> "queen", target |-> target_name[1], method |-> action_name]
      ELSE IF Names(target_name, drone_names)
        THEN [kind |-> "drone", target |-> target_name[1], method |-> action_name]
      ELSE [kind |-> "notfound", target |-> target_name]

\* The same against the registries as they are.
Resolve(action) == ResolveIn(action, DOMAIN queens, DOMAIN drones)

\* Lines 351-358: the step after execute returned the dict `outcome`.
AfterExecute(step, outcome) ==
  IF outcome.kind = "dict" /\ outcome.success = "true"
    THEN mark_completed(step,
           Observation("Message",
             IF outcome.message = NoKey THEN "Action completed successfully"
             ELSE outcome.message),
           outcome.data)
  ELSE IF outcome.kind = "dict"
    THEN mark_failed(step,
           Observation("Error",
             IF outcome.error = NoKey THEN "Unknown error" ELSE outcome.error),
           outcome.details)
  ELSE step

\* Interpret without the handler of lines 360-362: an exception of execute or
\* of reading its result leaves the step as it was.
InterpretUncaught(step, outcome) == AfterExecute(step, outcome)

\* Lines 342-362: the step after execute came back with `outcome` or raised.
Interpret(step, outcome) ==
  IF outcome.kind = "raise"
    THEN mark_failed(step, Observation("ExecutionError", outcome.text), NoKey)
  ELSE IF outcome.kind = "nondict"
    THEN mark_failed(step, Observation("ExecutionError", "AttributeError"), NoKey)
  ELSE AfterExecute(step, outcome)

\* Lines 329-331 and 344-347: the step when no execute is invoked.
Unresolved(step, res) ==
  IF res.kind = "invalid"
    THEN mark_failed(step, ObservationAbout("InvalidActionFormat", step.action.toks), NoKey)
  ELSE IF res.kind = "notfound"
    THEN mark_failed(step, ObservationAbout("DroneNotFound", res.target), NoKey)
  ELSE mark_failed(step, Observation("ExecutionError", res.text), NoKey)

\* ------------------------------------------------------------------------
\* MessageBus as the orchestrators use it, one call at a time
\* ------------------------------------------------------------------------
\* send_message (message_bus.py 12-15): the mailboxes afterwards.
BusSend(mb, recipient_queen_id, message) ==
  IF recipient_queen_id \in DOMAIN mb
    THEN [mb EXCEPT ![recipient_queen_id] = Append(@, message)]
    ELSE mb @@ (recipient_queen_id :> <<message>>)

\* receive_messages (message_bus.py 17-20): the list returned ...
BusReceived(mb, queen_id) == IF queen_id \in DOMAIN mb THEN mb[queen_id] ELSE <<>>

\* receive_messages without line 19: a peek that leaves the queue in place.
BusPeeked(mb, queen_id) == mb

\* ... and the mailboxes afterwards.
BusCleared(mb, queen_id) ==
  [x \in DOMAIN mb \cup {queen_id} |-> IF x = queen_id THEN <<>> ELSE mb[x]]

\* ------------------------------------------------------------------------
\* QueenOrchestrator.send_message / _receive_messages_from_bus
\* ------------------------------------------------------------------------
SendOk(parameters) ==
  parameters.recipient_queen_id # NoKey /\ MessageTruthy(parameters.message)

\* The message dict after line 199 stamped it.
Stamped(self, parameters) ==
  [parameters.message EXCEPT !.sender_queen_id = self]

\* send_message (189-201): outcome, mailboxes and the step's parameters after.
send_message(self, parameters, mb) ==
  IF ~SendOk(parameters)
    THEN [outcome |-> Dict("false", NoKey, NoKey, "Missing parameter", NoKey, <<>>),
          mailboxes |-> mb, parameters |-> parameters]
    ELSE [outcome |-> Dict("true", "Message sent", NoKey, NoKey, NoKey, <<>>),
          mailboxes |-> BusSend(mb, parameters.recipient_queen_id,
                                Stamped(self, parameters)),
          parameters |-> [parameters EXCEPT !.message = Stamped(self, parameters)]]

\* _receive_messages_from_bus (156-161).
receive_messages_from_bus(self, parameters, mb) ==
  [outcome |-> Dict("true", NoKey, NoKey, NoKey, NoKey, BusReceived(mb, self)),
   mailboxes |-> BusCleared(mb, self), parameters |-> parameters]

\* ------------------------------------------------------------------------
\* _generate_plan
\* ------------------------------------------------------------------------
NoPlan == [ok |-> FALSE, specs |-> <<>>]
Plan(specs) == [ok |-> TRUE, specs |-> specs]

\* Lines 309-321 and 412-424: the MissionStep specs built from a JSON array,
\* or the KeyError raised at the first object that lacks a key.
AllComplete(items) == \A i \in 1..Len(items) : items[i].complete

\* Lines 207-271: the plan synthesized from the drained mailbox.
MailboxPlan(self, messages) ==
  IF messages # <<>>
    THEN LET task_message == messages[1]
             task_payload == IF task_message.message = Absent THEN EmptyPayload
                             ELSE task_message.message
             sender_queen_id == IF task_message.sender_queen_id = NoKey THEN self
                                ELSE task_message.sender_queen_id
         IN IF PayloadTruthy(task_payload) /\ task_payload.task # NoKey
              THEN IF task_payload.task = "port_scan"
                     THEN LET target == IF task_payload.target = NoKey
                                        THEN "localhost" ELSE task_payload.target
                          IN << StepSpec(1, Str(<<"ReconDrone", ".", "port_scan">>),
                                         Parameters(NoKey, NoKey, Absent),
                                         "Execute port scan"),
                                StepSpec(2, Str(<<self, ".", "send_message">>),
                                         Parameters(NoKey, sender_queen_id,
                                           Message("port_scan", target, Absent,
                                                   NoKey, "completed", NoDetails,
                                                   Absent, "Port scan completed")),
                                         "Report port scan completion") >>
                     ELSE << StepSpec(1, Str(<<self, ".", "send_message">>),
                                      Parameters(NoKey, sender_queen_id,
                                        Message(NoKey, NoKey, Absent, NoKey, "failed",
                                                Details("Unknown task: ",
                                                        task_payload.task),
                                                task_payload, NoKey)),
                                      "Report back unknown task") >>
              ELSE << StepSpec(1, Str(<<self, ".", "send_message">>),
                               Parameters(NoKey, sender_queen_id,
                                 Message(NoKey, NoKey, Absent, NoKey, "failed",
                                         Details("Received empty or malformed task message",
                                                 NoKey),
                                         task_payload, NoKey)),
                               "Report back malformed message") >>
    ELSE << StepSpec(1, Str(<<self, ".", "send_message">>),
                     Parameters(NoKey, self,
                       Message(NoKey, NoKey, Absent, NoKey, "completed",
                               Details("No new messages in mailbox.", NoKey),
                               Absent, NoKey)),
                     "Mailbox is empty") >>

\* Lines 293-321: the plan parsed from the Planner's response.
PlannerPlan(response) ==
  IF response.kind = "json" /\ response.value.type = "list"
     /\ AllComplete(response.value.items)
    THEN Plan(response.value.items)
    ELSE NoPlan

\* _generate_plan (204-325): the plan (or None) and the mailboxes afterwards.
generate_plan(self, goal, response, mb) ==
  IF goal = MailboxGoal
    THEN LET mailbox_result == receive_messages_from_bus(self, NoParameters, mb)
         IN [plan |-> Plan(MailboxPlan(self, mailbox_result.outcome.messages)),
             mailboxes |-> mailbox_result.mailboxes, asked |-> FALSE]
    ELSE [plan |-> PlannerPlan(response), mailboxes |-> mb, asked |-> TRUE]

\* ------------------------------------------------------------------------
\* Inputs: what the oracles, the drones and the human may answer
\* ------------------------------------------------------------------------
DroneStep(id) ==
  StepSpec(id, Str(<<"ReconDrone", ".", "port_scan">>), NoParameters, "scan")
MissionCallStep(id, queen) ==
  StepSpec(id, Str(<<queen, ".", "execute_mission">>),
           Parameters("say hello", NoKey, Absent), "delegate")
UnknownStep(id) ==
  StepSpec(id, Str(<<"NoSuchThing", ".", "method">>), NoParameters, "guess")

QueenNoGoalStep(id, queen) ==
  StepSpec(id, Str(<<queen, ".", "status">>), NoParameters, "ask")
SendStep(id, queen, recipient, message) ==
  StepSpec(id, Str(<<queen, ".", "send_message">>),
           Parameters(NoKey, recipient, message), "tell")
CheckStep(id, queen) ==
  StepSpec(id, Str(<<queen, ".", "check_mailbox">>), NoParameters, "listen")
ShapeStep(action) == StepSpec(1, action, NoParameters, "shape")

\* The step specs the Planner builds its arrays from in the lifecycle runs.
PlannerSpecs ==
  {DroneStep(1), DroneStep(2)} \cup {MissionCallStep(1, q) : q \in QueenIds}

\* The step specs the Reflector builds a revised_plan from.
ReflectorSpecs == {DroneStep(2), Incomplete(DroneStep(3))}

SeqsUpTo(S, n) == UNION {[1..k -> S] : k \in 0..n}

JsonList(items) == [type |-> "list", items |-> items]
JsonOther == [type |-> "other", items |-> <<>>]
JsonMissing == [type |-> "missing", items |-> <<>>]

\* Planner: the call raises, the text is no JSON, or it is a JSON value.
FailingResponses ==
  {[kind |-> "raise"], [kind |-> "text"], [kind |-> "json", value |-> JsonOther],
   [kind |-> "json", value |-> JsonList(<<>>)],
   [kind |-> "json", value |-> JsonList(<<Incomplete(DroneStep(1))>>)],
   [kind |-> "json", value |-> JsonList(<<DroneStep(1), Incomplete(DroneStep(2))>>)]}

PlannerResponses ==
  FailingResponses
  \cup {[kind |-> "json", value |-> JsonList(p)] :
          p \in SeqsUpTo(PlannerSpecs, MaxPlanLen)}

Usable(response) == PlannerPlan(response).ok /\ PlannerPlan(response).specs # <<>>

\* A verdict dict of the Reflector.
Verdict(next_action, revised_plan) ==
  [type |-> "dict", next_action |-> next_action, revised_plan |-> revised_plan]

NextActions ==
  {"continue", "retry", "request_human_feedback", "abort", NoKey}

ReflectorResponses ==
  {[kind |-> "raise"], [kind |-> "text"],
   [kind |-> "json", value |-> [type |-> "list"]]}
  \cup {[kind |-> "json", value |-> Verdict(a, JsonMissing)] : a \in NextActions}
  \cup {[kind |-> "json", value |-> Verdict("replan", rp)] :
          rp \in {JsonMissing, JsonOther}
                 \cup {JsonList(p) : p \in SeqsUpTo(ReflectorSpecs, MaxRevisedLen)}}

\* input(): the text typed, or EOFError when standard input is closed.
HumanAnswers == {[kind |-> "text", text |-> "go on"], [kind |-> "raise"]}

\* What a drone's execute may hand back.
DroneOutcomes ==
  {Dict("true", "hi", "payload", NoKey, NoKey, <<>>),
   Dict("true", NoKey, NoKey, NoKey, NoKey, <<>>),
   Dict("false", NoKey, NoKey, "boom", "why", <<>>),
   Dict("false", NoKey, NoKey, NoKey, NoKey, <<>>),
   Dict(NoKey, NoKey, NoKey, NoKey, NoKey, <<>>),
   NonDict,
   Raise("kaboom")}

\* The two a mission's course depends on: done and failed.
MainOutcomes ==
  {Dict("true", "hi", "payload", NoKey, NoKey, <<>>),
   Dict("false", NoKey, NoKey, "boom", "why", <<>>)}

\* ------------------------------------------------------------------------
\* execute_mission
\* ------------------------------------------------------------------------
StrId(n) == [tag |-> "str", n |-> n]
IntId(n) == [tag |-> "int", n |-> n]
NoMissionResult ==
  [set |-> FALSE, total_steps |-> 0, successful_steps |-> 0, failed_steps |-> 0]

Min(a, b) == IF a < b THEN a ELSE b

\* get_mission_history (state_manager.py 70-73) with the default limit.
HistoryLimit == 10
get_mission_history(file) ==
  SubSeq(file, Len(file) - Min(Len(file), HistoryLimit) + 1, Len(file))

Top(stk) == stk[Len(stk)]
Pop(stk) == SubSeq(stk, 1, Len(stk) - 1)
SetTop(stk, f) == [stk EXCEPT ![Len(stk)] = f]

Frame(queen, own, plan) ==
  [queen |-> queen, own |-> own, plan |-> plan, iter |-> plan, idx |-> 1,
   pc |-> "dispatch"]

\* The loop walking whatever list `plan` is bound to at the moment.
LoopListRebound(f) == f.plan

\* The list object `for idx, step in enumerate(plan)` walks: the one bound
\* to plan when the loop was entered (line 74).
LoopList(f) == f.iter

Running == stack # <<>> /\ Top(stack).pc = "dispatch"
          /\ Top(stack).idx <= Len(LoopList(Top(stack)))
Current == LoopList(Top(stack))[Top(stack).idx]

Advance(f) == [f EXCEPT !.idx = @ + 1, !.pc = "dispatch"]

\* AfterStep with retry taken as "dispatch the failed step again": the cursor
\* stays where it is.
AfterStepRetry(f, step) == IF step.status = "failed" THEN f ELSE Advance(f)

\* Lines 99-128 entry: a failed step goes to reflection, any other to the
\* next iteration.
AfterStep(f, step) == IF step.status = "failed" THEN [f EXCEPT !.pc = "reflect"]
                      ELSE Advance(f)

\* Begin with line 59 reading `if plan is None`: an empty plan passes.
BeginNoneOnly(self, goal, response, stp, mis, mb, file) ==
  LET gp == generate_plan(self, goal, response, mb)
      ok == gp.plan.ok
      refs == [i \in 1..Len(gp.plan.specs) |-> Len(stp) + i]
      stp2 == IF ok THEN stp \o SeqMap(MissionStep, gp.plan.specs) ELSE stp
      dict == [id |-> StrId(Len(get_mission_history(file)) + 1), goal |-> goal,
               status |-> IF ok THEN "executing" ELSE "planning",
               steps |-> IF ok THEN [i \in 1..Len(refs) |-> to_dict(stp2, refs[i])]
                         ELSE <<>>,
               result |-> NoMissionResult]
  IN [ok |-> ok, plan |-> IF ok THEN refs ELSE <<>>, steps |-> stp2,
      missions |-> Append(mis, dict), mailboxes |-> gp.mailboxes,
      asked |-> gp.asked]

\* Lines 44-69: the mission dict, the plan and the steps after planning.
Begin(self, goal, response, stp, mis, mb, file) ==
  LET gp == generate_plan(self, goal, response, mb)
      ok == gp.plan.ok /\ gp.plan.specs # <<>>
      refs == [i \in 1..Len(gp.plan.specs) |-> Len(stp) + i]
      stp2 == IF ok THEN stp \o SeqMap(MissionStep, gp.plan.specs) ELSE stp
      dict == [id |-> StrId(Len(get_mission_history(file)) + 1), goal |-> goal,
               status |-> IF ok THEN "executing" ELSE "planning",
               steps |-> IF ok THEN [i \in 1..Len(refs) |-> to_dict(stp2, refs[i])]
                         ELSE <<>>,
               result |-> NoMissionResult]
  IN [ok |-> ok, plan |-> IF ok THEN refs ELSE <<>>, steps |-> stp2,
      missions |-> Append(mis, dict), mailboxes |-> gp.mailboxes,
      asked |-> gp.asked]

PlanningFailure == Dict("false", NoKey, NoKey, "Failed to generate plan", NoKey, <<>>)

\* The caller's side of a return: the step that called execute is settled by
\* _execute_step (351-362), or the call was the top-level one.
ReturnTo(stk, stp, outcome) ==
  IF stk = <<>> THEN [stack |-> stk, steps |-> stp]
  ELSE LET f == Top(stk)
           r == LoopList(f)[f.idx]
           s2 == Interpret(stp[r], outcome)
       IN [stack |-> SetTop(stk, AfterStep(f, s2)),
           steps |-> [stp EXCEPT ![r] = s2]]

Call(queen, mission, kind, success, error) ==
  [queen |-> queen, mission |-> mission, kind |-> kind, success |-> success,
   error |-> error]

\* The Planner answers with a usable plan only while the model's budget of
\* mission dicts lasts.
Offered(response) == Len(missions) < MaxMissions \/ ~Usable(response)

\* A caller outside the hive invokes execute_mission(goal) on a queen.
SubmitGoal(self, goal, response) ==
  /\ stack = <<>>
  /\ Len(calls) < MaxCalls
  /\ Offered(response)
  /\ LET b == Begin(self, goal, response, steps, missions, mailboxes, store[self])
         m == Len(missions) + 1
     IN /\ steps' = b.steps
        /\ missions' = b.missions
        /\ mailboxes' = b.mailboxes
        /\ current_mission' = [current_mission EXCEPT ![self] = m]
        /\ dispatchLog' = Append(dispatchLog, <<>>)
        /\ IF b.ok
             THEN /\ mission_steps' = [mission_steps EXCEPT ![self] = b.plan]
                  /\ stack' = <<Frame(self, m, b.plan)>>
                  /\ calls' = calls
             ELSE /\ mission_steps' = mission_steps
                  /\ stack' = stack
                  /\ calls' = Append(calls, Call(self, m, "planning_failure", FALSE,
                                                 "Failed to generate plan"))
  /\ UNCHANGED <<step_index, store, addLog, busVars, store1, registryVars>>

\* Lines 75-97 for a step whose action names no target: _execute_step
\* settles it without invoking any execute.
ExecuteUnresolved ==
  /\ Running
  /\ LET f == Top(stack)
         r == Current
         res == Resolve(steps[r].action)
         s2 == Unresolved(steps[r], res)
     IN /\ res.kind \in {"invalid", "notfound", "raise"}
        /\ steps' = [steps EXCEPT ![r] = s2]
        /\ stack' = SetTop(stack, AfterStep(f, s2))
        /\ step_index' = [step_index EXCEPT ![f.queen] = f.idx - 1]
        /\ dispatchLog' = [dispatchLog EXCEPT ![f.own] = Append(@, r)]
  /\ UNCHANGED <<missions, current_mission, mission_steps, mailboxes, store,
                 calls, addLog, busVars, store1, registryVars>>

\* Lines 75-97 for a step dispatched to a drone, which answers `outcome`.
ExecuteDrone(outcome) ==
  /\ Running
  /\ LET f == Top(stack)
         r == Current
         res == Resolve(steps[r].action)
         s2 == Interpret(steps[r], outcome)
     IN /\ res.kind = "drone"
        /\ steps' = [steps EXCEPT ![r] = s2]
        /\ stack' = SetTop(stack, AfterStep(f, s2))
        /\ step_index' = [step_index EXCEPT ![f.queen] = f.idx - 1]
        /\ dispatchLog' = [dispatchLog EXCEPT ![f.own] = Append(@, r)]
  /\ UNCHANGED <<missions, current_mission, mission_steps, mailboxes, store,
                 calls, addLog, busVars, store1, registryVars>>

\* Lines 75-97 for a step dispatched to a queen's send_message or
\* check_mailbox (execute, 178-182).
ExecuteQueenMail ==
  /\ Running
  /\ LET f == Top(stack)
         r == Current
         res == Resolve(steps[r].action)
     IN /\ res.kind = "queen"
        /\ res.method \in {<<"send_message">>, <<"check_mailbox">>}
        /\ LET out == IF res.method = <<"send_message">>
                        THEN send_message(res.target, steps[r].parameters, mailboxes)
                        ELSE receive_messages_from_bus(res.target,
                                                       steps[r].parameters, mailboxes)
               s2 == Interpret([steps[r] EXCEPT !.parameters = out.parameters],
                               out.outcome)
           IN /\ steps' = [steps EXCEPT ![r] = s2]
              /\ mailboxes' = out.mailboxes
              /\ stack' = SetTop(stack, AfterStep(f, s2))
        /\ step_index' = [step_index EXCEPT ![f.queen] = f.idx - 1]
        /\ dispatchLog' = [dispatchLog EXCEPT ![f.own] = Append(@, r)]
  /\ UNCHANGED <<missions, current_mission, mission_steps, store, calls, addLog,
                 busVars, store1, registryVars>>

\* Lines 75-97 for a step dispatched to a queen with any other method
\* (execute, 183-187): without a goal the queen reports an error; with one
\* it runs execute_mission, which either fails planning at once or starts
\* its own loop while this call waits.
ExecuteQueenMission(response) ==
  /\ Running
  /\ Offered(response)
  /\ LET f == Top(stack)
         r == Current
         res == Resolve(steps[r].action)
     IN /\ res.kind = "queen"
        /\ res.method \notin {<<"send_message">>, <<"check_mailbox">>}
        /\ step_index' = [step_index EXCEPT ![f.queen] = f.idx - 1]
        /\ IF steps[r].parameters.goal = NoKey
             THEN LET s2 == Interpret(steps[r],
                              Dict("false", NoKey, NoKey, "Missing 'goal'", NoKey, <<>>))
                  IN /\ response = [kind |-> "raise"]
                     /\ steps' = [steps EXCEPT ![r] = s2]
                     /\ stack' = SetTop(stack, AfterStep(f, s2))
                     /\ dispatchLog' = [dispatchLog EXCEPT ![f.own] = Append(@, r)]
                     /\ UNCHANGED <<missions, current_mission, mission_steps,
                                    mailboxes>>
             ELSE LET b == Begin(res.target, steps[r].parameters.goal, response,
                                 steps, missions, mailboxes, store[res.target])
                      m == Len(missions) + 1
                      back == ReturnTo(stack, b.steps, PlanningFailure)
                  IN /\ missions' = b.missions
                     /\ mailboxes' = b.mailboxes
                     /\ current_mission' = [current_mission EXCEPT ![res.target] = m]
                     /\ dispatchLog' =
                          Append([dispatchLog EXCEPT ![f.own] = Append(@, r)], <<>>)
                     /\ IF b.ok
                          THEN /\ steps' = b.steps
                               /\ mission_steps' =
                                    [mission_steps EXCEPT ![res.target] = b.plan]
                               /\ stack' = Append(SetTop(stack, [f EXCEPT !.pc = "await"]),
                                                  Frame(res.target, m, b.plan))
                          ELSE /\ steps' = back.steps
                               /\ mission_steps' = mission_steps
                               /\ stack' = back.stack
  /\ UNCHANGED <<store, calls, addLog, busVars, store1, registryVars>>

\* _reflect_on_failure (364-397): the value handed back to the loop.
reflect_on_failure(response) ==
  IF response.kind = "json" THEN response.value
  ELSE Verdict("continue", JsonMissing)

\* Lines 117-121: what a replan verdict does with its revised_plan.
\* "none": revised_plan is missing or empty; "raise": _parse_plan_from_llm
\* raises; "splice": the new steps are parsed.
ReplanEffect(revised_plan) ==
  IF revised_plan.type = "missing" THEN "none"
  ELSE IF revised_plan.type # "list" THEN "raise"
  ELSE IF revised_plan.items = <<>> THEN "none"
  ELSE IF AllComplete(revised_plan.items) THEN "splice"
  ELSE "raise"

\* add_mission without line 63 for a dict that carries an integer id already.
add_mission_keeping_id(file, mission, stp) ==
  LET stamped == IF mission.id.tag = "int" THEN mission
                 ELSE [mission EXCEPT !.id = IntId(Len(file) + 1)]
      record == [stamped EXCEPT
                   !.steps = [i \in 1..Len(mission.steps) |->
                                Serialize(stp, mission.steps[i])]]
  IN [file |-> Append(file, record), mission |-> stamped]

\* add_mission (state_manager.py 57-68): the file and the mission dict after.
add_mission(file, mission, stp) ==
  LET stamped == [mission EXCEPT !.id = IntId(Len(file) + 1)]
      record == [stamped EXCEPT
                   !.steps = [i \in 1..Len(mission.steps) |->
                                Serialize(stp, mission.steps[i])]]
  IN [file |-> Append(file, record), mission |-> stamped]

\* An exception leaves execute_mission: the call is over, and the caller is
\* either a step of an outer mission or the top-level caller.
Escape(text) ==
  LET f == Top(stack)
      back == ReturnTo(Pop(stack), steps, Raise(text))
  IN /\ stack' = back.stack
     /\ steps' = back.steps
     /\ calls' = IF Len(stack) = 1
                   THEN Append(calls, Call(f.queen, f.own, "raised", FALSE, text))
                   ELSE calls
     /\ UNCHANGED <<missions, mission_steps, store, addLog>>

\* Lines 99-128 with a retry verdict taken at its word: the failed step is
\* dispatched again instead of the next one.
ReflectWithRetry(response) ==
  /\ stack # <<>>
  /\ Top(stack).pc = "reflect"
  /\ LET f == Top(stack)
         reflection == reflect_on_failure(response)
         onward == /\ stack' = SetTop(stack, Advance(f))
                   /\ UNCHANGED <<steps, missions, mission_steps, store, calls,
                                  addLog>>
     IN IF reflection.type # "dict" THEN onward
        ELSE IF reflection.next_action = "retry"
          THEN /\ stack' = SetTop(stack, [f EXCEPT !.pc = "dispatch"])
               /\ steps' = [steps EXCEPT ![LoopList(f)[f.idx]].status = "pending"]
               /\ UNCHANGED <<missions, mission_steps, store, calls, addLog>>
        ELSE IF reflection.next_action = "request_human_feedback"
          THEN \E answer \in HumanAnswers :
                 IF answer.kind = "raise" THEN Escape("EOFError") ELSE onward
        ELSE IF reflection.next_action = "replan"
          THEN LET effect == ReplanEffect(reflection.revised_plan)
                   items == reflection.revised_plan.items
                   remaining_steps == [i \in 1..Len(items) |-> Len(steps) + i]
                   plan == SubSeq(f.plan, 1, f.idx) \o remaining_steps
               IN IF effect = "raise" THEN Escape("KeyError")
                  ELSE IF effect = "none" THEN onward
                  ELSE /\ steps' = steps \o SeqMap(MissionStep, items)
                       /\ stack' = SetTop(stack, Advance([f EXCEPT !.plan = plan]))
                       /\ mission_steps' = [mission_steps EXCEPT ![f.queen] = plan]
                       /\ UNCHANGED <<missions, store, calls, addLog>>
        ELSE onward
  /\ UNCHANGED <<current_mission, step_index, mailboxes, dispatchLog, busVars,
                 store1, registryVars>>

\* Lines 99-128: reflection on the failed step and the verdict's effect.
Reflect(response) ==
  /\ stack # <<>>
  /\ Top(stack).pc = "reflect"
  /\ LET f == Top(stack)
         reflection == reflect_on_failure(response)
         onward == /\ stack' = SetTop(stack, Advance(f))
                   /\ UNCHANGED <<steps, missions, mission_steps, store, calls,
                                  addLog>>
     IN IF reflection.type # "dict" THEN onward
        ELSE IF reflection.next_action = "request_human_feedback"
          THEN \E answer \in HumanAnswers :
                 IF answer.kind = "raise" THEN Escape("EOFError") ELSE onward
        ELSE IF reflection.next_action = "replan"
          THEN LET effect == ReplanEffect(reflection.revised_plan)
                   items == reflection.revised_plan.items
                   remaining_steps == [i \in 1..Len(items) |-> Len(steps) + i]
                   plan == SubSeq(f.plan, 1, f.idx) \o remaining_steps
               IN IF effect = "raise" THEN Escape("KeyError")
                  ELSE IF effect = "none" THEN onward
                  ELSE /\ steps' = steps \o SeqMap(MissionStep, items)
                       /\ stack' = SetTop(stack, Advance([f EXCEPT !.plan = plan]))
                       /\ mission_steps' = [mission_steps EXCEPT ![f.queen] = plan]
                       /\ UNCHANGED <<missions, store, calls, addLog>>
        ELSE onward
  /\ UNCHANGED <<current_mission, step_index, mailboxes, dispatchLog, busVars,
                 store1, registryVars>>

CountCompleted(stp, plan) ==
  Cardinality({i \in 1..Len(plan) : stp[plan[i]].status = "completed"})

\* Lines 130-154: the loop is over; the mission is marked completed, counted,
\* handed to the store and returned.
CompleteMission ==
  /\ stack # <<>>
  /\ Top(stack).pc = "dispatch"
  /\ Top(stack).idx > Len(LoopList(Top(stack)))
  /\ LET f == Top(stack)
         self == f.queen
         cm == current_mission[self]
         success_count == CountCompleted(steps, f.plan)
         done == [missions[cm] EXCEPT
                    !.status = "completed",
                    !.result = [set |-> TRUE, total_steps |-> Len(f.plan),
                                successful_steps |-> success_count,
                                failed_steps |-> Len(f.plan) - success_count]]
         added == add_mission(store[self], done, steps)
         success == success_count = Len(f.plan)
         back == ReturnTo(Pop(stack), steps,
                          Dict(IF success THEN "true" ELSE "false",
                               NoKey, NoKey, NoKey, NoKey, <<>>))
     IN /\ missions' = [missions EXCEPT ![cm] = added.mission]
        /\ store' = [store EXCEPT ![self] = added.file]
        /\ addLog' = Append(addLog, [queen |-> self, mission |-> cm, by |-> f.own,
                                     status |-> done.status, plan |-> f.plan])
        /\ stack' = back.stack
        /\ steps' = back.steps
        /\ calls' = IF Len(stack) = 1
                      THEN Append(calls, Call(self, f.own, "result", success, NoKey))
                      ELSE calls
  /\ UNCHANGED <<current_mission, mission_steps, step_index, mailboxes,
                 dispatchLog, busVars, store1, registryVars>>

\* ------------------------------------------------------------------------
\* The hive after initialize_hive (main.py 39-149)
\* ------------------------------------------------------------------------
InitMission ==
  /\ steps = <<>>
  /\ missions = <<>>
  /\ current_mission = [q \in QueenIds |-> 0]
  /\ mission_steps = [q \in QueenIds |-> <<>>]
  /\ step_index = [q \in QueenIds |-> 0]
  /\ stack = <<>>
  /\ mailboxes = <<>>
  /\ store = [q \in QueenIds |-> <<>>]
  /\ calls = <<>>
  /\ addLog = <<>>
  /\ dispatchLog = <<>>

InitBusIdle ==
  /\ heap = <<>>
  /\ boxes = <<>>
  /\ threads = <<>>
  /\ sent = 0

\* One registered instance per name.
NoCall ==
  [op |-> "none", name |-> <<>>, instance |-> 0, registry |-> "none",
   raised |-> FALSE, status |-> None, observation |-> NoObservation]

InitRegistries ==
  /\ queens = [q \in QueenIds |-> 1]
  /\ drones = [d \in DroneNames |-> 1]
  /\ tools = [x \in ToolNames |-> 1]
  /\ last = NoCall

Init == InitMission /\ InitBusIdle /\ store1 = <<>> /\ InitRegistries

\* Lifecycle runs: one goal is submitted to the CLI's default queen (the two
\* queens are built alike, main.py 98-141); its steps go to the drone or
\* delegate a mission to either queen.
Next ==
  \/ \E response \in PlannerResponses :
       SubmitGoal("default_queen", "say hello", response)
  \/ \E outcome \in MainOutcomes : ExecuteDrone(outcome)
  \/ \E response \in PlannerResponses : ExecuteQueenMission(response)
  \/ \E response \in ReflectorResponses : Reflect(response)
  \/ CompleteMission

Spec == Init /\ [][Next]_vars

\* Lifecycle runs in which every call returns: the interpreter goes on with
\* the next statement of execute_mission as long as there is one.
LivePlannerResponses ==
  {[kind |-> "raise"]}
  \cup {[kind |-> "json", value |-> JsonList(p)] :
          p \in SeqsUpTo({DroneStep(1), MissionCallStep(1, "default_queen")},
                         MaxPlanLen)}

LiveReflectorResponses ==
  {[kind |-> "json", value |-> Verdict(a, JsonMissing)] :
     a \in {"continue", "request_human_feedback"}}
  \cup {[kind |-> "json", value |-> Verdict("replan", JsonList(p))] :
          p \in SeqsUpTo(ReflectorSpecs, MaxRevisedLen) \ {<<>>}}

Proceed ==
  \/ \E outcome \in MainOutcomes : ExecuteDrone(outcome)
  \/ \E response \in LivePlannerResponses : ExecuteQueenMission(response)
  \/ \E response \in LiveReflectorResponses : Reflect(response)
  \/ CompleteMission

NextLive ==
  \/ \E response \in LivePlannerResponses :
       SubmitGoal("default_queen", "say hello", response)
  \/ \E outcome \in MainOutcomes : ExecuteDrone(outcome)
  \/ \E response \in LivePlannerResponses : ExecuteQueenMission(response)
  \/ \E response \in LiveReflectorResponses : Reflect(response)
  \/ CompleteMission

SpecLive == Init /\ [][NextLive]_vars /\ WF_vars(Proceed)

\* Dispatch runs: one-step plans over every shape of action reference, every
\* kind of target and every answer a target may give.
DispatchSpecs ==
  {DroneStep(1), UnknownStep(1),
   ShapeStep(NonStr),
   ShapeStep(Str(<<"ReconDrone">>)),
   ShapeStep(Str(<<"ReconDrone", ".", "port_scan", ".", "fast">>)),
   ShapeStep(Str(<<"ReconDrone", ".">>)),
   ShapeStep(Str(<<".", "port_scan">>)),
   ShapeStep(Str(<<"shell_executor", ".", "run">>)),
   SendStep(1, "default_queen", "security_queen", TaskMessage("unknown_task")),
   SendStep(1, "security_queen", "default_queen", WrappedTask("port_scan")),
   SendStep(1, "default_queen", "security_queen", EmptyMessage),
   SendStep(1, "default_queen", NoKey, TaskMessage("port_scan"))}
  \cup {CheckStep(1, q) : q \in QueenIds}
  \cup {QueenNoGoalStep(1, q) : q \in QueenIds}
  \cup {MissionCallStep(1, q) : q \in QueenIds}

DispatchResponses ==
  {[kind |-> "raise"]}
  \cup {[kind |-> "json", value |-> JsonList(<<s>>)] : s \in DispatchSpecs}

NextDispatch ==
  \/ \E goal \in Goals, response \in DispatchResponses :
       SubmitGoal("default_queen", goal, response)
  \/ ExecuteUnresolved
  \/ \E outcome \in DroneOutcomes : ExecuteDrone(outcome)
  \/ ExecuteQueenMail
  \/ \E response \in DispatchResponses : ExecuteQueenMission(response)
  \/ \E response \in ReflectorResponses : Reflect(response)
  \/ CompleteMission

SpecDispatch == Init /\ [][NextDispatch]_vars

\* Mailbox runs: the plan of one mission sends task messages between the
\* queens, checks mailboxes and delegates missions with the reserved goal,
\* or the mission itself has the reserved goal.
TaskNames == {"port_scan", "unknown_task"}

MailMessages ==
  {TaskMessage(t) : t \in TaskNames} \cup {WrappedTask(t) : t \in TaskNames}

MailCallStep(id, queen) ==
  StepSpec(id, Str(<<queen, ".", "execute_mission">>),
           Parameters(MailboxGoal, NoKey, Absent), "delegate")

MailSpecs ==
  {SendStep(1, q, r, m) : q \in QueenIds, r \in QueenIds, m \in MailMessages}
  \cup {MailCallStep(1, q) : q \in QueenIds}
  \cup {CheckStep(1, q) : q \in QueenIds}

MailResponses ==
  {[kind |-> "json", value |-> JsonList(p)] :
     p \in SeqsUpTo(MailSpecs, MaxMailLen) \ {<<>>}}

Continue == [kind |-> "json", value |-> Verdict("continue", JsonMissing)]

NextMail ==
  \/ \E response \in MailResponses :
       SubmitGoal("default_queen", "say hello", response)
  \/ SubmitGoal("default_queen", MailboxGoal, [kind |-> "raise"])
  \/ \E outcome \in MainOutcomes : ExecuteDrone(outcome)
  \/ ExecuteQueenMail
  \/ ExecuteQueenMission([kind |-> "raise"])
  \/ Reflect(Continue)
  \/ CompleteMission

SpecMail == Init /\ [][NextMail]_vars

\* ------------------------------------------------------------------------
\* MessageBus under concurrent callers (message_bus.py 12-20)
\* ------------------------------------------------------------------------
\* Callers run on threads that may be switched between any two bytecodes.
\* Each dict or list operation (in, [], get, append, item assignment) is one
\* atomic step; the statements of send_message and receive_messages are
\* sequences of such steps.  Lists are objects: heap[ref] is the content of
\* list ref, boxes maps an id to the list that is its mailbox.
BusId == "default_queen"

Put(d, k, v) == [x \in DOMAIN d \cup {k} |-> IF x = k THEN v ELSE d[x]]

SendsBegun == Cardinality({t \in 1..Len(threads) : threads[t].op = "send"})
ReceivesBegun == Cardinality({t \in 1..Len(threads) : threads[t].op = "receive"})
Returned(op) ==
  {t \in 1..Len(threads) : threads[t].op = op /\ threads[t].pc = "done"}

Thread(op, pc, message, after) ==
  [op |-> op, pc |-> pc, message |-> message, list |-> 0, after |-> after]

\* A thread calls send_message(BusId, message) with a message of its own.
CallSend ==
  /\ SendsBegun < MaxSends
  /\ threads' = Append(threads, Thread("send", "test", sent + 1, {}))
  /\ sent' = sent + 1
  /\ UNCHANGED <<heap, boxes, missionVars, store1, registryVars>>

\* A thread calls receive_messages(BusId).  after: the messages whose send
\* had returned by then.
CallReceive ==
  /\ ReceivesBegun < MaxReceives
  /\ threads' = Append(threads,
                  Thread("receive", "get", 0,
                         {threads[t].message : t \in Returned("send")}))
  /\ UNCHANGED <<heap, boxes, sent, missionVars, store1, registryVars>>

\* Line 13: if recipient_queen_id not in self.mailboxes
SendTest(t) ==
  /\ threads[t].pc = "test"
  /\ threads' = [threads EXCEPT ![t].pc =
                   IF BusId \in DOMAIN boxes THEN "load" ELSE "create"]
  /\ UNCHANGED <<heap, boxes, sent, missionVars, store1, registryVars>>

\* Line 14: self.mailboxes[recipient_queen_id] = []
SendCreate(t) ==
  /\ threads[t].pc = "create"
  /\ heap' = Append(heap, <<>>)
  /\ boxes' = Put(boxes, BusId, Len(heap) + 1)
  /\ threads' = [threads EXCEPT ![t].pc = "load"]
  /\ UNCHANGED <<sent, missionVars, store1, registryVars>>

\* Line 15, first half: self.mailboxes[recipient_queen_id]
SendLoad(t) ==
  /\ threads[t].pc = "load"
  /\ threads' = [threads EXCEPT ![t].pc = "append", ![t].list = boxes[BusId]]
  /\ UNCHANGED <<heap, boxes, sent, missionVars, store1, registryVars>>

\* Line 15, second half: .append(message); the call returns.
SendAppend(t) ==
  /\ threads[t].pc = "append"
  /\ heap' = [heap EXCEPT ![threads[t].list] = Append(@, threads[t].message)]
  /\ threads' = [threads EXCEPT ![t].pc = "done"]
  /\ UNCHANGED <<boxes, sent, missionVars, store1, registryVars>>

\* Line 18: messages = self.mailboxes.get(queen_id, [])
ReceiveGet(t) ==
  /\ threads[t].pc = "get"
  /\ IF BusId \in DOMAIN boxes
       THEN /\ threads' = [threads EXCEPT ![t].pc = "clear", ![t].list = boxes[BusId]]
            /\ heap' = heap
       ELSE /\ threads' = [threads EXCEPT ![t].pc = "clear", ![t].list = Len(heap) + 1]
            /\ heap' = Append(heap, <<>>)
  /\ UNCHANGED <<boxes, sent, missionVars, store1, registryVars>>

\* Lines 19-20: self.mailboxes[queen_id] = []; return messages
ReceiveClear(t) ==
  /\ threads[t].pc = "clear"
  /\ heap' = Append(heap, <<>>)
  /\ boxes' = Put(boxes, BusId, Len(heap) + 1)
  /\ threads' = [threads EXCEPT ![t].pc = "done"]
  /\ UNCHANGED <<sent, missionVars, store1, registryVars>>

NextBus ==
  \/ CallSend
  \/ CallReceive
  \/ \E t \in 1..Len(threads) : SendTest(t)
  \/ \E t \in 1..Len(threads) : SendCreate(t)
  \/ \E t \in 1..Len(threads) : SendLoad(t)
  \/ \E t \in 1..Len(threads) : SendAppend(t)
  \/ \E t \in 1..Len(threads) : ReceiveGet(t)
  \/ \E t \in 1..Len(threads) : ReceiveClear(t)

SpecBus == Init /\ [][NextBus]_vars

\* ------------------------------------------------------------------------
\* The registries (base_drone.py 125-172, queen_registry.py 7-27)
\* ------------------------------------------------------------------------
\* Registry runs start from the registries as constructed, empty, and
\* register instances 1..MaxInstances under the names below in any of the
\* three tables, in any order; steps are dispatched in between.
RegistryNames == {"default_queen", "ReconDrone"}
Instances == 1..MaxInstances

\* dict.get(name): the instance, 0 for None.
Get(d, name) == IF name \in DOMAIN d THEN d[name] ELSE 0
get_drone(name) == Get(drones, name)
get_queen(queen_id) == Get(queens, queen_id)

InitEmpty ==
  /\ InitMission /\ InitBusIdle /\ store1 = <<>>
  /\ queens = <<>> /\ drones = <<>> /\ tools = <<>>
  /\ last = NoCall

RegistryCall(op, name, instance, raised) ==
  [NoCall EXCEPT !.op = op, !.name = <<name>>, !.instance = instance,
                 !.raised = raised]

\* DroneRegistry.register_drone (136-137), drone.name = name.
register_drone(name, instance) ==
  /\ drones' = Put(drones, name, instance)
  /\ last' = RegistryCall("register_drone", name, instance, FALSE)
  /\ UNCHANGED <<queens, tools, missionVars, busVars, store1>>

\* DroneRegistry.register_tool (139-140).
register_tool(tool_name, tool_instance) ==
  /\ tools' = Put(tools, tool_name, tool_instance)
  /\ last' = RegistryCall("register_tool", tool_name, tool_instance, FALSE)
  /\ UNCHANGED <<queens, drones, missionVars, busVars, store1>>

\* QueenRegistry.register_queen (17-21).
register_queen(queen_id, queen_instance) ==
  /\ IF queen_id \in DOMAIN queens
       THEN /\ queens' = queens
            /\ last' = RegistryCall("register_queen", queen_id, queen_instance, TRUE)
       ELSE /\ queens' = Put(queens, queen_id, queen_instance)
            /\ last' = RegistryCall("register_queen", queen_id, queen_instance, FALSE)
  /\ UNCHANGED <<drones, tools, missionVars, busVars, store1>>

\* _execute_step (326-362) on a fresh step with the given action, the
\* target answering `outcome` when one is found.
DispatchStep(action, outcome) ==
  /\ LET step == MissionStep(ShapeStep(action))
         res == Resolve(action)
         found == res.kind \in {"queen", "drone"}
         s2 == IF found THEN Interpret(step, outcome) ELSE Unresolved(step, res)
     IN last' = [op |-> "dispatch",
                 name |-> IF found THEN <<res.target>>
                          ELSE IF res.kind = "notfound" THEN res.target ELSE <<>>,
                 instance |-> IF res.kind = "queen" THEN get_queen(res.target)
                              ELSE IF res.kind = "drone" THEN get_drone(res.target)
                              ELSE 0,
                 registry |-> IF found THEN res.kind ELSE "none",
                 raised |-> FALSE,
                 status |-> s2.status, observation |-> s2.observation]
  /\ UNCHANGED <<queens, drones, tools, missionVars, busVars, store1>>

RegistryActions ==
  {Str(<<n, ".", "run">>) : n \in RegistryNames} \cup {Str(<<"ReconDrone">>)}

NextRegistry ==
  \/ \E n \in RegistryNames, i \in Instances : register_drone(n, i)
  \/ \E n \in RegistryNames : register_tool(n, 1)
  \/ \E n \in RegistryNames, i \in Instances : register_queen(n, i)
  \/ \E action \in RegistryActions, outcome \in MainOutcomes :
       DispatchStep(action, outcome)

SpecRegistry == InitEmpty /\ [][NextRegistry]_vars

\* ------------------------------------------------------------------------
\* StateManager on one state file (state_manager.py)
\* ------------------------------------------------------------------------
\* Every call loads the file, changes the loaded state and saves it.  A
\* save that fails (json.dumps or the write raises, lines 53-55) leaves the
\* file as it was.
StoreStatuses == {"completed", "failed"}
SomeResult ==
  [set |-> TRUE, total_steps |-> 1, successful_steps |-> 1, failed_steps |-> 0]
StoreResults == {NoMissionResult, SomeResult}

\* The mission dicts callers hand to add_mission: with the id execute_mission
\* gave them, or with an integer id of an earlier add_mission.
StoreMissions ==
  {[id |-> i, goal |-> g, status |-> s, steps |-> <<>>,
    result |-> NoMissionResult] :
     i \in {StrId(1), IntId(1), IntId(7)}, g \in Goals,
     s \in {"executing", "completed"}}

\* update_mission_status (84-96): the state after the loop, and whether a
\* record with the id was found.
update_mission_status(file, mission_id, status, result) ==
  LET hits == {i \in 1..Len(file) : file[i].id = IntId(mission_id)}
      first == CHOOSE i \in hits : \A j \in hits : i <= j
  IN IF hits = {} THEN [found |-> FALSE, file |-> file]
     ELSE [found |-> TRUE,
           file |-> [file EXCEPT
                       ![first].status = status,
                       ![first].result = IF result = NoMissionResult THEN @
                                         ELSE result]]

\* A caller invokes add_mission(mission); `saved` is save_state's answer.
AddMission(mission, saved) ==
  /\ Len(store1) < MaxRecords
  /\ store1' = IF saved THEN add_mission(store1, mission, <<>>).file ELSE store1
  /\ UNCHANGED <<missionVars, busVars, registryVars>>

\* A caller invokes update_mission_status(mission_id, status, result).
UpdateMissionStatus(mission_id, status, result, saved) ==
  /\ LET u == update_mission_status(store1, mission_id, status, result)
     IN store1' = IF u.found /\ saved THEN u.file ELSE store1
  /\ UNCHANGED <<missionVars, busVars, registryVars>>

NextStore ==
  \/ \E mission \in StoreMissions, saved \in BOOLEAN : AddMission(mission, saved)
  \/ \E mission_id \in 0..(MaxRecords + 1), status \in StoreStatuses,
        result \in StoreResults, saved \in BOOLEAN :
       UpdateMissionStatus(mission_id, status, result, saved)

SpecStore == Init /\ [][NextStore]_vars

\* ------------------------------------------------------------------------
\* Claims
\* ------------------------------------------------------------------------
Range(s) == {s[i] : i \in 1..Len(s)}
IsPrefix(s, u) == Len(s) <= Len(u) /\ SubSeq(u, 1, Len(s)) = s

\* C1: after a failed step and a replan verdict with a non-empty
\* revised_plan, the steps dispatched are those of the spliced list, in list
\* order: what a mission has dispatched is always a prefix of its current
\* step list (so the next step dispatched is the first revised one and no
\* old step behind the cursor is dispatched), and when the mission is handed
\* to the store every step of its list, the revised ones included, has been
\* dispatched.
C1_ReplanRedirectsDispatch ==
  /\ \A j \in 1..Len(stack) :
       IsPrefix(dispatchLog[stack[j].own], stack[j].plan)
  /\ \A k \in 1..Len(addLog) : dispatchLog[addLog[k].by] = addLog[k].plan

\* The k-th add_mission call's record in the file it was appended to.
RecordOf(k) ==
  LET q == addLog[k].queen
  IN store[q][Cardinality({j \in 1..k : addLog[j].queen = q})]

\* C2: the record handed to the store at completion holds the final step
\* list: one entry per step of the call's (possibly replanned) list, in
\* order, with the status, observation and result the step has then.
C2_PersistedStepsAreFinal ==
  \A k \in 1..Len(addLog) :
    RecordOf(k).steps =
      [i \in 1..Len(addLog[k].plan) |->
         Serialize(steps, to_dict(steps, addLog[k].plan[i]))]

\* C3: every replan event leaves the steps at indices <= cursor as they
\* were, these are exactly the steps dispatched so far, and no dispatched
\* step drops out of the list.
C3_ReplanKeepsHistory ==
  [][(stack # <<>> /\ Len(stack') = Len(stack)
      /\ Top(stack').plan # Top(stack).plan)
     => LET f == Top(stack)
            g == Top(stack')
        IN /\ SubSeq(g.plan, 1, f.idx) = SubSeq(f.plan, 1, f.idx)
           /\ SubSeq(g.plan, 1, f.idx) = dispatchLog[f.own]
           /\ Range(dispatchLog[f.own]) \subseteq Range(g.plan)
           /\ \A r \in Range(dispatchLog[f.own]) : steps'[r] = steps[r]]_vars

\* C4: each call of execute_mission that gets as far as add_mission hands
\* over its own mission dict, exactly once over the whole run, and with
\* status completed.
C4_PersistedExactlyOnce ==
  \A k \in 1..Len(addLog) :
    /\ Cardinality({j \in 1..Len(addLog) : addLog[j].mission = addLog[k].by}) = 1
    /\ addLog[k].mission = addLog[k].by
    /\ addLog[k].status = "completed"

\* The Planner responses that give nothing usable: the call raised, the
\* text is no JSON, the JSON is no array, the array is empty or one of its
\* objects lacks a key.
Unusable(response) ==
  \/ response.kind # "json"
  \/ response.value.type # "list"
  \/ response.value.items = <<>>
  \/ \E i \in 1..Len(response.value.items) : ~response.value.items[i].complete

\* What a planning failure leaves behind: the new dict m still planning, no
\* step created or dispatched, nothing handed to any store.
NothingStarted(m) ==
  /\ Len(missions') = m
  /\ missions'[m].status = "planning"
  /\ missions'[m].steps = <<>>
  /\ Len(steps') = Len(steps)
  /\ dispatchLog'[m] = <<>>
  /\ store' = store
  /\ addLog' = addLog

\* C5: when plan generation yields nothing usable, execute_mission returns
\* success false with the planning error (to the top-level caller, or to the
\* step that delegated the mission), the store is not written, no step is
\* dispatched and the mission is still planning.
C5_PlanningFailureAborts ==
  [][\A response \in PlannerResponses \cup DispatchResponses :
       Unusable(response) =>
         /\ SubmitGoal("default_queen", "say hello", response)
              => /\ NothingStarted(Len(missions) + 1)
                 /\ stack' = <<>>
                 /\ calls' = Append(calls, Call("default_queen", Len(missions) + 1,
                                                "planning_failure", FALSE,
                                                "Failed to generate plan"))
         /\ (ExecuteQueenMission(response) /\ steps[Current].parameters.goal # NoKey)
              => /\ NothingStarted(Len(missions) + 1)
                 /\ Len(stack') = Len(stack)
                 /\ steps'[Current].status = "failed"
                 /\ steps'[Current].observation =
                      Observation("Error", "Failed to generate plan")]_vars

\* C5 witness: a delegated mission whose planning failed, next to a store
\* that is still empty.
C5_Witness ==
  /\ Len(missions) = 2
  /\ missions[2].status = "planning"
  /\ stack # <<>>
  /\ Top(stack).pc = "reflect"
  /\ steps[Current].observation = Observation("Error", "Failed to generate plan")

\* The loop of the innermost call moves on to the next cursor position.
Proceeds ==
  /\ Len(stack') = Len(stack)
  /\ Top(stack').idx = Top(stack).idx + 1
  /\ Top(stack').pc = "dispatch"
  /\ Top(stack').own = Top(stack).own

\* C6: after a step failed, whatever the Reflector's verdict, execution
\* proceeds to the next cursor position, and a mission that started
\* executing ends completed: none ends while its cursor has steps of its
\* list ahead, and none ends in any other way.
C6_FailureNeverEndsMission ==
  [][/\ (stack # <<>> /\ Top(stack).pc = "reflect") => Proceeds
     /\ (stack # <<>> /\ Len(stack') < Len(stack))
          => /\ Top(stack).pc = "dispatch"
             /\ Top(stack).idx > Len(Top(stack).plan)
             /\ missions'[Top(stack).own].status = "completed"]_vars

\* C7: dispatching a step never raises.  Whatever the step and whatever its
\* target does, the step is settled as completed or failed when
\* _execute_step is over (a delegated mission is over when its call
\* returns), and when the target's execute raised, the step is failed and
\* its observation carries the exception's message.
C7_DispatchNeverRaises ==
  [][/\ (Running /\ stack' # stack)
          => \/ steps'[Current].status \in {"completed", "failed"}
             \/ /\ Len(stack') = Len(stack) + 1
                /\ stack'[Len(stack)].pc = "await"
     /\ \A outcome \in DroneOutcomes :
          (outcome.kind = "raise" /\ ExecuteDrone(outcome))
            => /\ steps'[Current].status = "failed"
               /\ steps'[Current].observation =
                    Observation("ExecutionError", outcome.text)
     /\ (Len(stack) >= 2 /\ Len(stack') = Len(stack) - 1)
          => LET caller == stack[Len(stack) - 1]
                 r == LoopList(caller)[caller.idx]
             IN /\ steps'[r].status \in {"completed", "failed"}
                /\ stack'[Len(stack')].pc \in {"dispatch", "reflect"}
                /\ Top(stack).pc = "reflect"
                     => /\ steps'[r].status = "failed"
                        /\ steps'[r].observation.kind = "ExecutionError"]_vars

\* C7 witness: a step whose drone raised, settled as failed with the
\* exception's message.
C7_Witness ==
  \E r \in 1..Len(steps) :
    /\ steps[r].status = "failed"
    /\ steps[r].observation = Observation("ExecutionError", "kaboom")

\* The Reflector responses that are no verdict: the call raised, the text is
\* no JSON, the JSON is no object, next_action is missing or outside the
\* vocabulary, or a replan verdict's revised_plan is not a list of complete
\* step specs.
NoVerdict(response) ==
  \/ response.kind # "json"
  \/ response.value.type # "dict"
  \/ response.value.next_action \notin
       {"continue", "retry", "replan", "request_human_feedback"}
  \/ /\ response.value.next_action = "replan"
     /\ \/ response.value.revised_plan.type # "list"
        \/ ~AllComplete(response.value.revised_plan.items)

\* C8: a Reflector response that is no verdict is treated as continue: the
\* step list stays as it is and the loop moves on (so the mission goes on to
\* completed).
C8_ReflectionFailsOpen ==
  [][\A response \in ReflectorResponses :
       (NoVerdict(response) /\ Reflect(response))
         => /\ Proceeds
            /\ Top(stack').plan = Top(stack).plan
            /\ mission_steps' = mission_steps
            /\ steps' = steps]_vars

\* C9: once planning has succeeded, execute_mission returns a result
\* object: no top-level call ends with an exception, whatever happened in a
\* capability, in reflection or while a verdict was applied.
C9_NoExceptionLeavesMission ==
  \A k \in 1..Len(calls) : calls[k].kind \in {"planning_failure", "result"}

\* The list a returned receive_messages call handed to its caller.
Delivered(t) == Range(heap[threads[t].list])

\* C10: under any interleaving of receive_messages and send_message calls
\* for one id, no message is returned by two receive calls, and every
\* message whose send had returned when a receive call began is returned by
\* some receive call once that call has returned.
C10_NoDoubleDeliveryNoLoss ==
  /\ \A m \in 1..sent :
       Cardinality({t \in Returned("receive") : m \in Delivered(t)}) <= 1
  /\ \A t \in Returned("receive") :
       \A m \in threads[t].after :
         \E u \in Returned("receive") : m \in Delivered(u)

\* The queue of id q: what is in its mailbox, nothing when it has none.
Queue(mb, q) == IF q \in DOMAIN mb THEN mb[q] ELSE <<>>

\* This step begins a mission with the reserved goal on queen q.
BeginsMailboxMission(q) ==
  /\ Len(missions') = Len(missions) + 1
  /\ missions'[Len(missions')].goal = MailboxGoal
  /\ current_mission'[q] = Len(missions')

\* This step dispatches the current step to method `method` of queen q.
DispatchesTo(q, method) ==
  /\ Running
  /\ stack' # stack
  /\ Resolve(steps[Current].action).kind = "queen"
  /\ Resolve(steps[Current].action).target = q
  /\ Resolve(steps[Current].action).method = <<method>>

\* C11: receive_messages(id) returns the whole queue of id in the order the
\* messages were appended and leaves that queue empty, every other queue
\* untouched, so that a second receive returns the empty list; also for an
\* id without a mailbox.  Every drain of the orchestrators (check_mailbox,
\* the reserved goal) leaves the bus as receive_messages does, and any other
\* step leaves a queue alone or appends one message at its end.
C11_ReceiveDrains ==
  [][\A q \in QueenIds :
       LET before == Queue(mailboxes, q)
           got == receive_messages_from_bus(q, NoParameters, mailboxes)
           again == receive_messages_from_bus(q, NoParameters, got.mailboxes)
       IN /\ got.outcome.messages = before
          /\ Queue(got.mailboxes, q) = <<>>
          /\ again.outcome.messages = <<>>
          /\ \A p \in QueenIds \ {q} : Queue(got.mailboxes, p) = Queue(mailboxes, p)
          /\ IF DispatchesTo(q, "check_mailbox") \/ BeginsMailboxMission(q)
               THEN mailboxes' = got.mailboxes
               ELSE /\ IsPrefix(before, Queue(mailboxes', q))
                    /\ Len(Queue(mailboxes', q)) <= Len(before) + 1]_vars

\* C11 witness: a reserved-goal mission drained a queue that held a task,
\* and the queue is empty now.
C11_Witness ==
  \E q \in QueenIds, i \in 1..Len(missions) :
    /\ missions[i].goal = MailboxGoal
    /\ Len(missions[i].steps) = 2
    /\ current_mission[q] = i
    /\ q \in DOMAIN mailboxes
    /\ mailboxes[q] = <<>>

\* The message a queue holds after queen s handed `message` to send_message.
SentBy(s, message) == [message EXCEPT !.sender_queen_id = s]

\* The steps this step created.
NewSteps == SubSeq(steps', Len(steps) + 1, Len(steps'))

\* The mission of the innermost running call has the reserved goal.
InMailboxMission == Running /\ missions[Top(stack).own].goal = MailboxGoal

\* C12: when the mailbox of q holds exactly the message {task:
\* "unknown_task"} that peer s sent with send_message, a mission with the
\* reserved goal on q plans one step, a send_message to s whose message has
\* status "failed" and details "Unknown task: unknown_task"; and a
\* send_message step of a reserved-goal mission puts its message at the end
\* of the queue of the recipient it names.
C12_UnknownTaskIsReported ==
  [][/\ \A q \in QueenIds : \A s \in QueenIds \ {q} :
          (/\ Queue(mailboxes, q) = <<SentBy(s, TaskMessage("unknown_task"))>>
           /\ BeginsMailboxMission(q))
            => /\ Len(NewSteps) = 1
               /\ NewSteps[1].action = Str(<<q, ".", "send_message">>)
               /\ NewSteps[1].parameters.recipient_queen_id = s
               /\ NewSteps[1].parameters.message.status = "failed"
               /\ NewSteps[1].parameters.message.details =
                    Details("Unknown task: ", "unknown_task")
     /\ \A q \in QueenIds :
          (InMailboxMission /\ DispatchesTo(q, "send_message"))
            => LET parameters == steps[Current].parameters
                   r == parameters.recipient_queen_id
               IN Queue(mailboxes', r) =
                    Append(Queue(mailboxes, r), SentBy(q, parameters.message))]_vars

\* No queue differs between this state and the next.
QueuesUnchanged == \A p \in QueenIds : Queue(mailboxes', p) = Queue(mailboxes, p)

\* The innermost call runs a reserved-goal mission planned from an empty
\* mailbox (lines 262-271).
InEmptyMailboxMission ==
  /\ stack # <<>>
  /\ missions[Top(stack).own].goal = MailboxGoal
  /\ Len(missions[Top(stack).own].steps) = 1
  /\ missions[Top(stack).own].steps[1].reasoning = "Mailbox is empty"

\* C13: a reserved-goal mission begun on an empty mailbox plans exactly one
\* step, and neither its planning nor anything it does until it has
\* completed changes the content of any queue.
C13_EmptyMailboxIsNoOp ==
  [][/\ \A q \in QueenIds :
          (Queue(mailboxes, q) = <<>> /\ BeginsMailboxMission(q))
            => Len(NewSteps) = 1 /\ QueuesUnchanged
     /\ InEmptyMailboxMission => QueuesUnchanged]_vars

\* C14: for the reserved goal the plan never depends on the Planner, which
\* is not asked; and when the first message of the queue, as send_message of
\* queen s delivered it, names the task port_scan, the mission begun plans
\* two steps: ReconDrone.port_scan, then send_message addressed to s.
C14_RecognizedTaskPlansTwoSteps ==
  [][\A q \in QueenIds :
       /\ \A response \in PlannerResponses :
            /\ ~generate_plan(q, MailboxGoal, response, mailboxes).asked
            /\ generate_plan(q, MailboxGoal, response, mailboxes).plan =
                 generate_plan(q, MailboxGoal, [kind |-> "raise"], mailboxes).plan
       /\ \A s \in QueenIds :
            (/\ Queue(mailboxes, q) # <<>>
             /\ Head(Queue(mailboxes, q)) = SentBy(s, TaskMessage("port_scan"))
             /\ BeginsMailboxMission(q))
              => /\ Len(NewSteps) = 2
                 /\ NewSteps[1].action = Str(<<"ReconDrone", ".", "port_scan">>)
                 /\ NewSteps[2].action = Str(<<q, ".", "send_message">>)
                 /\ NewSteps[2].parameters.recipient_queen_id = s]_vars

\* C15: a send step that a mission of queen a dispatches, whatever queen its
\* target token names, appends one message at the end of the queue of the
\* recipient the step names, stamped with sender id a, and changes no other
\* queue.
C15_SenderIsDispatcher ==
  [][\A q \in QueenIds :
       (/\ DispatchesTo(q, "send_message")
        /\ SendOk(steps[Current].parameters))
         => LET a == Top(stack).queen
                r == steps[Current].parameters.recipient_queen_id
            IN /\ Queue(mailboxes', r) =
                    Append(Queue(mailboxes, r),
                           SentBy(a, steps[Current].parameters.message))
               /\ \A p \in QueenIds \ {r} :
                    Queue(mailboxes', p) = Queue(mailboxes, p)]_vars

\* C16: the target token is looked up among the queens first and among the
\* drones second.  A name registered as both is dispatched to the queen
\* instance, a name registered as a drone only to the drone instance, and a
\* name in neither table, also one registered as a tool, leaves the step
\* failed with a not-found observation, no execute invoked, nothing raised.
C16_QueensThenDrones ==
  [][\A n \in RegistryNames : \A outcome \in MainOutcomes :
       DispatchStep(Str(<<n, ".", "run">>), outcome)
         => /\ ~last'.raised
            /\ IF n \in DOMAIN queens
                 THEN last'.registry = "queen" /\ last'.instance = queens[n]
               ELSE IF n \in DOMAIN drones
                 THEN last'.registry = "drone" /\ last'.instance = drones[n]
               ELSE /\ last'.registry = "none"
                    /\ last'.instance = 0
                    /\ last'.status = "failed"
                    /\ last'.observation = ObservationAbout("DroneNotFound", <<n>>)]_vars

\* C16 witness: a name registered as a queen and as a drone with different
\* instances was dispatched to the queen's.
C16_Witness ==
  \E n \in RegistryNames :
    /\ n \in DOMAIN queens /\ n \in DOMAIN drones
    /\ queens[n] # drones[n]
    /\ last.op = "dispatch" /\ last.name = <<n>>
    /\ last.registry = "queen" /\ last.instance = queens[n]

\* C20: registering a name, present already or not, in the drone registry
\* and in the queen registry alike, raises nothing and stores the new
\* instance, so that the get that follows returns the instance registered
\* last.
C20_LastRegistrationWins ==
  [][\A n \in RegistryNames : \A i \in Instances :
       /\ register_drone(n, i) => ~last'.raised /\ Get(drones', n) = i
       /\ register_queen(n, i) => ~last'.raised /\ Get(queens', n) = i]_vars

\* A string that splits on "." into exactly two non-empty tokens.
WellFormed(action) ==
  /\ Len(SplitDot(action.toks)) = 2
  /\ SplitDot(action.toks)[1] # <<>>
  /\ SplitDot(action.toks)[2] # <<>>

\* C17: a step whose action string does not split on "." into exactly two
\* non-empty tokens is settled as failed with the invalid-action-format
\* observation, and no drone's execute is invoked for it.
C17_MalformedActionIsRejected ==
  [][(/\ Running
      /\ stack' # stack
      /\ steps[Current].action.type = "str"
      /\ ~WellFormed(steps[Current].action))
       => /\ steps'[Current].status = "failed"
          /\ steps'[Current].observation =
               ObservationAbout("InvalidActionFormat", steps[Current].action.toks)
          /\ \A outcome \in DroneOutcomes : ~ExecuteDrone(outcome)]_vars

\* C18: the outcome a drone's execute returns fixes the step.  success true:
\* completed, the outcome's message (the default text when it has none) as
\* observation, its data as result.  success false: failed, the error in the
\* observation, the details in the result.  Any other shape (a dict without
\* success, a value that is no dict): failed with an observation of its own
\* kind, neither that of a reported error nor that of a raised exception.
C18_OutcomeFixesStep ==
  [][\A outcome \in DroneOutcomes :
       ExecuteDrone(outcome)
         => LET s2 == steps'[Current] IN
            IF outcome.kind = "dict" /\ outcome.success = "true"
              THEN /\ s2.status = "completed"
                   /\ s2.observation =
                        Observation("Message",
                          IF outcome.message = NoKey
                            THEN "Action completed successfully"
                            ELSE outcome.message)
                   /\ s2.result = ResultData(outcome.data)
            ELSE IF outcome.kind = "dict" /\ outcome.success = "false"
              THEN /\ s2.status = "failed"
                   /\ s2.observation.kind = "Error"
                   /\ outcome.error # NoKey => s2.observation.arg = outcome.error
                   /\ s2.result = ResultError(outcome.details)
            ELSE IF outcome.kind = "raise"
              THEN s2.status = "failed" /\ s2.observation.kind = "ExecutionError"
            ELSE /\ s2.status = "failed"
                 /\ s2.observation.kind \notin {"Error", "ExecutionError"}]_vars

\* The number of steps of the list `plan` whose status is `status`.
CountStatus(plan, status) ==
  Cardinality({i \in 1..Len(plan) : steps[plan[i]].status = status})

\* C19: the result written when a mission completes counts the final step
\* list: total_steps is its length, successful_steps the number of its
\* completed steps, failed_steps the number of its failed steps, and none of
\* its steps is still pending; also after a replan.
C19_ResultCountsFinalList ==
  [][(/\ stack # <<>>
      /\ Top(stack).pc = "dispatch"
      /\ Len(stack') < Len(stack))
       => LET plan == Top(stack).plan
              result == missions'[current_mission[Top(stack).queen]].result
          IN /\ result.set
             /\ result.total_steps = Len(plan)
             /\ result.successful_steps = CountStatus(plan, "completed")
             /\ result.failed_steps = CountStatus(plan, "failed")
             /\ CountStatus(plan, "pending") = 0]_vars

\* This step hands a step of mission dict m to _execute_step.
Dispatches(m) == dispatchLog'[m] # dispatchLog[m]

\* C21: within one mission the steps are dispatched one at a time, at the
\* cursor positions 1, 2, 3, ... in this order.  A dispatch is made by the
\* innermost call only, while it is neither reflecting nor waiting; the k-th
\* dispatch of a mission is made at cursor k and takes the step the loop
\* holds there, which is still pending; every step dispatched before is
\* completed or failed then, and is not dispatched again.  The cursor of a
\* call never moves back and moves on by one at a time.
C21_OneStepAtATimeInOrder ==
  [][/\ \A m \in 1..Len(dispatchLog) :
          Dispatches(m)
            => /\ Running
               /\ m = Top(stack).own
               /\ Top(stack).idx = Len(dispatchLog[m]) + 1
               /\ dispatchLog'[m] = Append(dispatchLog[m], Current)
               /\ Current \notin Range(dispatchLog[m])
               /\ steps[Current].status = "pending"
               /\ \A r \in Range(dispatchLog[m]) :
                    steps[r].status \in {"completed", "failed"}
               /\ step_index'[Top(stack).queen] = Top(stack).idx - 1
               /\ \A n \in 1..Len(dispatchLog) \ {m} : ~Dispatches(n)
     /\ \A j \in 1..Min(Len(stack), Len(stack')) :
          stack'[j].own = stack[j].own
            => /\ stack'[j].idx \in {stack[j].idx, stack[j].idx + 1}
               /\ stack'[j].idx = stack[j].idx + 1
                    => /\ stack[j].idx <= Len(LoopList(stack[j]))
                       /\ steps'[LoopList(stack[j])[stack[j].idx]].status
                            \in {"completed", "failed"}
                       /\ stack'[j].pc = "dispatch"]_vars

\* C21 witness: a mission dispatched its second step after its first step
\* had failed and the reflection on it was over.
C21_Witness ==
  \E m \in 1..Len(dispatchLog) :
    /\ Len(dispatchLog[m]) = 2
    /\ steps[dispatchLog[m][1]].status = "failed"
    /\ steps[dispatchLog[m][2]].status = "completed"

\* C22: the status of a mission dict only moves planning -> executing ->
\* completed.  A dict is created planning or (planning having succeeded in
\* the same call) executing; the only change of status afterwards is from
\* executing to completed, so a dict whose planning failed stays planning.
C22_StatusOnlyAdvances ==
  [][/\ \A m \in 1..Len(missions) :
          /\ m <= Len(missions')
          /\ missions'[m].status # missions[m].status
               => /\ missions[m].status = "executing"
                  /\ missions'[m].status = "completed"
     /\ \A m \in (Len(missions) + 1)..Len(missions') :
          /\ missions'[m].status \in {"planning", "executing"}
          /\ missions'[m].status = "planning" <=> missions'[m].steps = <<>>]_vars

\* A verdict of the Reflector with next_action a and no revised_plan.
VerdictOf(a) == [kind |-> "json", value |-> Verdict(a, JsonMissing)]

\* The state after the continue verdict: the cursor of the innermost call is
\* one further, and nothing else differs.
AsAfterContinue ==
  /\ stack' = SetTop(stack, Advance(Top(stack)))
  /\ UNCHANGED <<steps, missions, current_mission, mission_steps, step_index,
                 mailboxes, store, calls, addLog, dispatchLog>>

\* The steps of the innermost call's mission, on its list and in the loop.
OwnSteps == Range(Top(stack).plan) \cup Range(LoopList(Top(stack)))

Constructed(step) ==
  <<step.step_id, step.action, step.parameters, step.reasoning>>

\* C24: dispatching a step changes only that step's status, observation and
\* result.  The dispatched step keeps its step_id, action, parameters and
\* reasoning, and every other step that exists keeps all its fields, also
\* when the step is a send_message that an orchestrator carries out.
C24_DispatchTouchesOutcomeOnly ==
  [][(Running /\ stack' # stack)
       => /\ Len(steps') >= Len(steps)
          /\ Constructed(steps'[Current]) = Constructed(steps[Current])
          /\ \A r \in 1..Len(steps) : r # Current => steps'[r] = steps[r]]_vars

\* The step_id values of a list of steps grow strictly along the list.
IdsIncrease(list) ==
  \A i \in 1..Len(list) : \A j \in 1..Len(list) :
    i < j => list[i].step_id < list[j].step_id

\* C25: in every mission that enters executing, the step_id values of the
\* original plan are strictly increasing in list order, whatever array the
\* Planner returned, and nothing that happens later, a replan included,
\* changes the step_id of a step of the original plan.
C25_OriginalIdsIncrease ==
  [][/\ (/\ Len(missions') = Len(missions) + 1
         /\ missions'[Len(missions')].status = "executing")
          => IdsIncrease(NewSteps)
     /\ \A j \in 1..Len(stack) :
          \A i \in 1..Len(LoopList(stack[j])) :
            steps'[LoopList(stack[j])[i]].step_id =
              steps[LoopList(stack[j])[i]].step_id]_vars

\* C26: after any sequence of add_mission and update_mission_status calls on
\* one store, the stored records carry the ids 1, 2, ..., n in the order
\* they were appended (so no two share an id); each add_mission that saves
\* appends the dict it was given with the number of records stored before
\* plus one as id, and update_mission_status changes neither the number of
\* records nor any id.
C26_StoredIdsAreSequential ==
  [][/\ \A i \in 1..Len(store1') : store1'[i].id = IntId(i)
     /\ \A mission \in StoreMissions :
          AddMission(mission, TRUE)
            => store1' = Append(store1,
                                [mission EXCEPT !.id = IntId(Len(store1) + 1)])
     /\ \A mission_id \in 0..(MaxRecords + 1), status \in StoreStatuses,
           result \in StoreResults, saved \in BOOLEAN :
          UpdateMissionStatus(mission_id, status, result, saved)
            => /\ Len(store1') = Len(store1)
               /\ \A i \in 1..Len(store1) : store1'[i].id = store1[i].id]_vars

\* C26 witness: three records are stored, one of them added with an integer
\* id of its own and one updated since.
C26_Witness ==
  /\ Len(store1) = MaxRecords
  /\ store1[MaxRecords].id = IntId(MaxRecords)
  /\ \E i \in 1..Len(store1) :
       store1[i].status = "failed" /\ store1[i].result = SomeResult

\* C27: a mission always terminates.  While every call returns, a call of
\* execute_mission that has begun is over after finitely many dispatches:
\* a mission never dispatches more steps than the plan it was begun with
\* holds, whatever the steps' outcomes and the verdicts are (every step
\* failed and every verdict replan with a non-empty revised plan included),
\* and a call that has begun is eventually returned from, the calls it
\* delegated to included.
C27_MissionTerminates ==
  /\ [](\A m \in 1..Len(dispatchLog) :
          Len(dispatchLog[m]) <= Len(missions[m].steps))
  /\ (stack # <<>>) ~> (stack = <<>>)

\* C27 witness: a call has returned whose mission was replanned to a list
\* longer than the plan it began with, the step before the replan failed.
C27_Witness ==
  \E k \in 1..Len(addLog) :
    /\ stack = <<>>
    /\ Len(addLog[k].plan) > Len(missions[addLog[k].by].steps)
    /\ steps[addLog[k].plan[1]].status = "failed"

\* This step removes messages from the queue of q.
Drains(q) == ~IsPrefix(Queue(mailboxes, q), Queue(mailboxes', q))

\* C28: a mailbox is drained only on behalf of its owner.  Messages leave
\* the queue of queen q only when q begins a reserved-goal mission of its
\* own or when a mission that q itself runs dispatches a step; no step of
\* the plan of another queen's mission removes them.
C28_OnlyOwnerDrains ==
  [][\A q \in QueenIds :
       Drains(q)
         => \/ BeginsMailboxMission(q)
            \/ Running /\ Top(stack).queen = q]_vars

\* C29: the messages a check_mailbox step removes from a mailbox are not
\* lost: when the dispatch of the step is over the step is completed and its
\* result holds every message that was in the queue, in order.
C29_DrainedMessagesAreKept ==
  [][\A q \in QueenIds :
       (DispatchesTo(q, "check_mailbox") /\ Queue(mailboxes, q) # <<>>)
         => /\ steps'[Current].status = "completed"
            /\ steps'[Current].result.tag = "data"
            /\ steps'[Current].result.value = Queue(mailboxes, q)]_vars

\* The innermost call runs the two-step plan of a recognized mailbox task
\* (lines 220-240) and its cursor is at the reply.
AtReplyOfTaskPlan ==
  /\ InMailboxMission
  /\ Len(missions[Top(stack).own].steps) = 2
  /\ Top(stack).idx = 2
  /\ steps[Current].parameters.message.status = "completed"

\* C30: in the two-step plan built for a recognized mailbox task the reply
\* that reports status completed reaches the sender's mailbox only if the
\* task step completed: when the reply step puts its message into a queue,
\* the first step of the plan is completed, whatever verdict the Reflector
\* gave.
C30_ReplyOnlyAfterSuccess ==
  [][(/\ AtReplyOfTaskPlan
      /\ \E q \in QueenIds : DispatchesTo(q, "send_message")
      /\ ~QueuesUnchanged)
       => steps[LoopList(Top(stack))[1]].status = "completed"]_vars
====
